---- MODULE Spec2Model ----
(***************************************************************************)
(* Model of heisenberg_utils.gsheet_utils.upload_to_gsheet, the batched    *)
(* upload of a DataFrame to a Google Sheet worksheet, together with the    *)
(* safe_execution decorator that wraps it.                                 *)
(*                                                                         *)
(* The worksheet (pygsheets.Worksheet) is the remote collaborator.  It is  *)
(* modelled by what the calls made in gsheet_utils.py do to it: extents    *)
(* (rows, cols) and the set of non-empty cells.  Every remote call either  *)
(* takes effect and returns, or raises and leaves the worksheet as it was. *)
(*                                                                         *)
(* A dataset is N data rows by C named columns.  Its header cell of column *)
(* c is the value <<"h", 0, c>>, its data cell of 0-based row r and column *)
(* c is <<"d", r, c>>; content present before the call is <<"s", 0, 0>>.   *)
(* Datasets have at least one column.  A local file that exists is taken   *)
(* to be readable by pd.read_csv.                                          *)
(*                                                                         *)
(* The module also models gcs_utils.sync_gcs_file_to_local with the        *)
(* download_from_gcs it calls, over a bucket of blobs and a directory of   *)
(* local files (the variable gcs, specification SpecGcs).                  *)
(***************************************************************************)
EXTENDS Integers, Sequences, FiniteSets

\* ---------------------------------------------------------------- bounds
MaxRows == 3
MaxBatch == 2
\* Blob and file contents are 1 .. MaxVersion; 0 stands for "not there".
MaxVersion == 2

\* Column counts of the datasets: narrow ones, and the two around "Z".
ColCounts == {1, 2, 26, 27}
\* Batch sizes the caller may pass (an int; nothing in the code checks it).
BatchSizes == (0 - 1) .. MaxBatch
\* Extents a worksheet may have before the call, or when it is created.
RowExtents == {1, MaxRows, MaxRows + 2}
ColExtents == {1, 2, 28}
\* local_path values: not given, a file absent under DATA_PATH, a file there.
LocalPaths == {"", "missing.csv", "data.csv"}
\* Blob names of the bucket and paths of the local directory.
Blobs == {"a.pkl", "b.pkl"}
Paths == {"x.pkl", "y.pkl"}

\* ------------------------------------------------------------- constants
\* ord("A"), the 65 of chr(65 + data_cols - 1)
OrdA == 65
\* start_row = i + 2: row 1 is the header and rows are 1-indexed
FirstDataRow == 2

VARIABLES
    df,                   \* TRUE iff the caller passed df (not None)
    local_path,           \* the local_path argument ("" when not given)
    data,                 \* [N, C]: the dataset in df, or in the local file
    batch_size,           \* the batch_size argument
    drop_unused_columns,  \* the drop_unused_columns argument
    sheet,                \* the remote tab sheet_name: [exists, rows, cols, cells]
    pc,                   \* position in upload_to_gsheet
    i,                    \* the loop variable of the chunk loop
    calls,                \* remote calls made by the current invocation, in order
    outcome,              \* "none" while running; "True", "False", "None", "raised"
    injected,             \* TRUE iff a remote call of this invocation failed on its own
    run,                  \* 1 for the first invocation, 2 for the re-invocation
    first,                \* what the first invocation left: [outcome, sheet, injected]
    gcs                   \* the bucket, the local files and the sync call in progress

vars == <<df, local_path, data, batch_size, drop_unused_columns, sheet, pc, i,
          calls, outcome, injected, run, first, gcs>>

\* What an invocation of upload_to_gsheet never changes: its arguments, and
\* the storage that gcs_utils works on.
args == <<df, local_path, data, batch_size, drop_unused_columns, gcs>>

\* ------------------------------------------------------------ the dataset
total_rows == data.N
data_rows == total_rows + 1
data_cols == data.C

HeaderCells == {<<1, c, <<"h", 0, c>>>> : c \in 1 .. data_cols}

\* The cells of the payload rows (0-based dataset rows) written from sheet
\* row `top` on: payload[j] lands in sheet row top + j - 1.
RowCells(payload, top) ==
    {<<top + j - 1, c, <<"d", payload[j], c>>>> :
        j \in 1 .. Len(payload), c \in 1 .. data_cols}

\* upload_df.iloc[lo:lo+n]: the 0-based row positions lo .. min(lo+n, N)-1
Iloc(lo, n) ==
    LET hi == IF lo + n < total_rows THEN lo + n ELSE total_rows
    IN  [j \in 1 .. (IF hi > lo THEN hi - lo ELSE 0) |-> lo + j - 1]

\* ---------------------------------------------------------- the worksheet
Overwrite(cells, new) ==
    {t \in cells : ~ \E n \in new : n[1] = t[1] /\ n[2] = t[2]} \cup new

\* Mutant: the extents are added to the current ones (add_rows/add_cols).
ResizeAdds(s, rows, cols) ==
    [s EXCEPT !.rows = @ + rows, !.cols = @ + cols]

\* Worksheet.resize(rows, cols): cells outside the new extents are gone.
Resize(s, rows, cols) ==
    [s EXCEPT !.rows = rows, !.cols = cols,
              !.cells = {t \in s.cells : t[1] <= rows /\ t[2] <= cols}]

\* Mutant: the clear is left out.
ClearNothing(s) == s

\* Worksheet.clear(): every cell of the grid is emptied.
Clear(s) == [s EXCEPT !.cells = {}]

\* A write of `nrows` rows by `ncols` columns from row `top`, column A, is
\* accepted only inside the grid.
InGrid(s, top, nrows, ncols) ==
    top + nrows - 1 <= s.rows /\ ncols <= s.cols

\* The column a range label names: letters A..Z in base 26, 0 when the
\* label is not made of letters.
RECURSIVE ColumnIndex(_)
ColumnIndex(label) ==
    IF Len(label) = 0 THEN 0
    ELSE LET last == label[Len(label)]
             rest == SubSeq(label, 1, Len(label) - 1)
         IN  IF last < OrdA \/ last > OrdA + 25 THEN 0
             ELSE IF Len(rest) = 0 THEN last - OrdA + 1
             ELSE IF ColumnIndex(rest) = 0 THEN 0
             ELSE ColumnIndex(rest) * 26 + (last - OrdA + 1)

\* ------------------------------------------------------- the call history
\* One remote call: the operation, whether it returned (ok) or raised, the
\* position of upload_to_gsheet that issued it (at), and its arguments (0,
\* <<>> or FALSE where the operation has none): the extents asked of a
\* resize; of a write the column count, first and last sheet row, the
\* column letter of its range, the number of data rows in its payload and
\* whether the frame's header is written with it (copy_head).
Call(op, ok, rows, cols, top, bottom, label, n, head) ==
    [op |-> op, ok |-> ok, at |-> pc, rows |-> rows, cols |-> cols, top |-> top,
     bottom |-> bottom, label |-> label, n |-> n, head |-> head]

Plain(op, ok) == Call(op, ok, 0, 0, 0, 0, <<>>, 0, FALSE)

\* ------------------------------------------------------- safe_execution
\* upload_to_gsheet is decorated with @safe_execution(): enabled keeps its
\* default.
enabled == TRUE

\* What the caller of the decorated function sees when the body raises:
\* wrapper logs a warning and returns None; undecorated, the error leaves.
\* Mutant: the error is re-raised to the caller.
OnExceptionReraise == "raised"
OnException == IF enabled THEN "None" ELSE "raised"

\* The body raised: nothing after the raising statement runs.
Raise ==
    /\ pc' = "done"
    /\ outcome' = OnException

\* The body returned `value`.
Return(value) ==
    /\ pc' = "done"
    /\ outcome' = value

\* -------------------------------------------------------- upload_to_gsheet
\* Lines 75-85: choose the DataFrame to upload.
\* Mutant: the existence check is left out.
FileExistsUnchecked(path) == TRUE

\* full_path.exists(): of the paths a caller passes, only data.csv is there.
FileExists(path) == path = "data.csv"

PrepareDf ==
    /\ pc = "prepare"
    /\ IF df THEN pc' = "connect" /\ outcome' = outcome
       ELSE IF local_path # ""
            THEN IF ~ FileExists(local_path) THEN Return("False")
                 ELSE pc' = "connect" /\ outcome' = outcome
            ELSE Return("False")
    /\ UNCHANGED <<args, sheet, i, calls, injected, run, first>>

\* Lines 88-89: pygsheets.authorize and open_by_url.
Connect ==
    /\ pc = "connect"
    /\ \E ok \in BOOLEAN :
        /\ calls' = Append(calls, Plain("open", ok))
        /\ injected' = (injected \/ ~ ok)
        /\ IF ok THEN pc' = "worksheet" /\ outcome' = outcome ELSE Raise
    /\ UNCHANGED <<args, sheet, i, run, first>>

\* Lines 92-99: use the tab named sheet_name, or add it.  A new tab is empty
\* and has the extents the service gives it (r, c; they are read only when a
\* tab is added, and pinned otherwise).  sht.worksheets() may raise
\* (~ listed), and so may the lookup or the add (~ ok).
\* Mutant: the tab is added without looking at the existing tabs.
GetWorksheetAlwaysAdds ==
    /\ pc = "worksheet"
    /\ \E r \in RowExtents, c \in ColExtents :
          sheet' = [exists |-> TRUE, rows |-> r, cols |-> c, cells |-> {}]
    /\ calls' = calls \o <<Plain("worksheets", TRUE), Plain("add_worksheet", TRUE)>>
    /\ pc' = "capacity"
    /\ UNCHANGED <<args, i, outcome, injected, run, first>>

GetWorksheet ==
    /\ pc = "worksheet"
    /\ \E listed \in BOOLEAN, ok \in BOOLEAN, r \in RowExtents, c \in ColExtents :
        LET lookup == IF sheet.exists THEN "worksheet_by_title" ELSE "add_worksheet"
        IN  /\ ~ listed => ~ ok
            /\ (sheet.exists \/ ~ ok) => (r = 1 /\ c = 1)
            /\ calls' = IF listed
                        THEN calls \o <<Plain("worksheets", TRUE), Plain(lookup, ok)>>
                        ELSE Append(calls, Plain("worksheets", FALSE))
            /\ injected' = (injected \/ ~ ok)
            /\ IF ok
               THEN /\ sheet' = IF sheet.exists THEN sheet
                                ELSE [exists |-> TRUE, rows |-> r, cols |-> c, cells |-> {}]
                    /\ pc' = "capacity"
                    /\ outcome' = outcome
               ELSE /\ sheet' = sheet
                    /\ Raise
    /\ UNCHANGED <<args, i, run, first>>

\* Lines 102-113: grow the worksheet when the data does not fit.
\* Mutant: the row capacity is not looked at.
NeedsResizeColsOnly == data_cols > sheet.cols
NeedsResize == data_rows > sheet.rows \/ data_cols > sheet.cols
\* Mutant: the required row count, without the max with the current one.
new_rowsRequired == data_rows
new_rows == IF data_rows > sheet.rows THEN data_rows ELSE sheet.rows
new_cols == IF data_cols > sheet.cols THEN data_cols ELSE sheet.cols

EnsureCapacity ==
    /\ pc = "capacity"
    /\ IF NeedsResize
       THEN \E ok \in BOOLEAN :
               /\ calls' = Append(calls,
                      Call("resize", ok, new_rows, new_cols, 0, 0, <<>>, 0, FALSE))
               /\ injected' = (injected \/ ~ ok)
               /\ IF ok
                  THEN /\ sheet' = Resize(sheet, new_rows, new_cols)
                       /\ pc' = "clear"
                       /\ outcome' = outcome
                  ELSE /\ sheet' = sheet
                       /\ Raise
       ELSE /\ pc' = "clear"
            /\ UNCHANGED <<sheet, calls, injected, outcome>>
    /\ UNCHANGED <<args, i, run, first>>

\* Mutant: the worksheet is written without being cleared.
ClearSheetSkipped ==
    /\ pc = "clear"
    /\ pc' = "write"
    /\ UNCHANGED <<args, sheet, i, calls, outcome, injected, run, first>>

\* Line 116: wk.clear().
ClearSheet ==
    /\ pc = "clear"
    /\ \E ok \in BOOLEAN :
        /\ calls' = Append(calls, Plain("clear", ok))
        /\ injected' = (injected \/ ~ ok)
        /\ IF ok
           THEN sheet' = Clear(sheet) /\ pc' = "write" /\ outcome' = outcome
           ELSE sheet' = sheet /\ Raise
    /\ UNCHANGED <<args, i, run, first>>

\* Lines 119-122: the single-shot branch, wk.set_dataframe(upload_df,
\* start='A1', copy_head=True): header and all data rows in one write.
\* Mutant: < for <=.
SingleShotBranchStrict == total_rows < batch_size
SingleShotBranch == total_rows <= batch_size

SingleShot ==
    /\ pc = "write"
    /\ SingleShotBranch
    /\ \E ok \in BOOLEAN :
        LET fits == InGrid(sheet, 1, data_rows, data_cols)
        IN  /\ calls' = Append(calls,
                   Call("set_dataframe", ok /\ fits, 0, data_cols, 1, data_rows,
                        <<>>, total_rows, TRUE))
            /\ injected' = (injected \/ ~ ok)
            /\ IF ok /\ fits
               THEN /\ sheet' = [sheet EXCEPT !.cells =
                          Overwrite(@, HeaderCells
                                       \cup RowCells(Iloc(0, total_rows), FirstDataRow))]
                    /\ pc' = "trim"
                    /\ outcome' = outcome
               ELSE /\ sheet' = sheet
                    /\ Raise
    /\ UNCHANGED <<args, i, run, first>>

\* Python's a // b (floor division), b # 0.
FloorDiv(a, b) == IF b > 0 THEN a \div b ELSE (0 - a) \div (0 - b)

\* Line 125: num_batch = (total_rows + batch_size - 1) // batch_size, used
\* only in a log line; with batch_size = 0 the division raises.
num_batch == FloorDiv(total_rows + batch_size - 1, batch_size)

\* Lines 124-130: the chunked branch starts: num_batch is computed (a
\* ZeroDivisionError when batch_size is 0), then the header row alone is
\* written at A1 (copy_head=False: the header is the frame's only row).
ChunkedHeader ==
    /\ pc = "write"
    /\ ~ SingleShotBranch
    /\ IF batch_size = 0
       THEN /\ Raise
            /\ UNCHANGED <<sheet, calls, injected, i>>
       ELSE \E ok \in BOOLEAN :
               LET fits == InGrid(sheet, 1, 1, data_cols)
               IN  /\ calls' = Append(calls,
                          Call("set_dataframe", ok /\ fits, 0, data_cols, 1, 1,
                               <<>>, 0, FALSE))
                   /\ injected' = (injected \/ ~ ok)
                   /\ IF ok /\ fits
                      THEN /\ sheet' = [sheet EXCEPT !.cells = Overwrite(@, HeaderCells)]
                           /\ pc' = "loop"
                           /\ i' = 0
                           /\ outcome' = outcome
                      ELSE /\ sheet' = sheet
                           /\ i' = i
                           /\ Raise
    /\ UNCHANGED <<args, run, first>>

\* Line 133: for i in range(0, total_rows, batch_size)
\* Mutant: the stop value is included.
InRangeInclusive(k) ==
    IF batch_size > 0 THEN k <= total_rows ELSE k >= total_rows
InRange(k) ==
    IF batch_size > 0 THEN k < total_rows ELSE k > total_rows

\* Lines 134-146: one chunk and its range.
batch_df == Iloc(i, batch_size)
\* Mutant: the header row is not skipped.
start_rowNoHeader == i + 1
start_row == i + FirstDataRow
end_row ==
    IF start_row + Len(batch_df) - 1 < data_rows
    THEN start_row + Len(batch_df) - 1 ELSE data_rows
\* chr(65 + data_cols - 1), as the code point it yields
col_letter == <<OrdA + data_cols - 1>>

\* wk.update_values(range_name, values) is accepted when the label names a
\* column, the range lies in the grid and the values fit in the range.
Accepted(s, top, bottom, label, nrows, ncols) ==
    /\ ColumnIndex(label) # 0
    /\ top <= bottom
    /\ InGrid(s, top, bottom - top + 1, ColumnIndex(label))
    /\ nrows <= bottom - top + 1
    /\ ncols <= ColumnIndex(label)

\* Lines 133-150: one iteration of the chunk loop.
ChunkWrite ==
    /\ pc = "loop"
    /\ InRange(i)
    /\ \E ok \in BOOLEAN :
        LET good == Accepted(sheet, start_row, end_row, col_letter,
                             Len(batch_df), data_cols)
        IN  /\ calls' = Append(calls,
                   Call("update_values", ok /\ good, 0, data_cols, start_row, end_row,
                        col_letter, Len(batch_df), FALSE))
            /\ injected' = (injected \/ ~ ok)
            /\ IF ok /\ good
               THEN /\ sheet' = [sheet EXCEPT !.cells =
                          Overwrite(@, RowCells(batch_df, start_row))]
                    /\ i' = i + batch_size
                    /\ pc' = "loop"
                    /\ outcome' = outcome
               ELSE /\ sheet' = sheet
                    /\ i' = i
                    /\ Raise
    /\ UNCHANGED <<args, run, first>>

\* The range is exhausted: the loop ends (line 152).
LoopExit ==
    /\ pc = "loop"
    /\ ~ InRange(i)
    /\ pc' = "trim"
    /\ UNCHANGED <<args, sheet, i, calls, outcome, injected, run, first>>

\* Lines 155-173: the optional column trim, then return True.
last_used_col == data_cols
\* Mutant: the capacity is not compared with the column count.
NeedsTrimAlways == drop_unused_columns
NeedsTrim == drop_unused_columns /\ sheet.cols > last_used_col

TrimColumns ==
    /\ pc = "trim"
    /\ IF NeedsTrim
       THEN \E ok \in BOOLEAN :
               /\ calls' = Append(calls,
                      Call("resize", ok, sheet.rows, last_used_col, 0, 0, <<>>, 0, FALSE))
               /\ injected' = (injected \/ ~ ok)
               /\ IF ok
                  THEN sheet' = Resize(sheet, sheet.rows, last_used_col) /\ Return("True")
                  ELSE sheet' = sheet /\ Raise
       ELSE /\ Return("True")
            /\ UNCHANGED <<sheet, calls, injected>>
    /\ UNCHANGED <<args, i, run, first>>

\* The caller invokes upload_to_gsheet again with the same arguments on the
\* same spreadsheet.
Reinvoke ==
    /\ pc = "done"
    /\ run = 1
    /\ first' = [outcome |-> outcome, sheet |-> sheet, injected |-> injected]
    /\ run' = 2
    /\ pc' = "prepare"
    /\ i' = 0
    /\ calls' = <<>>
    /\ outcome' = "none"
    /\ injected' = FALSE
    /\ UNCHANGED <<args, sheet>>

\* ------------------------------------------------------------------ Init
Stale == <<"s", 0, 0>>

\* The tab before the first call: absent, or present with some extents and
\* either empty or holding old content in its first and last cells.
OldContents(r, c) == {{}, {<<1, 1, Stale>>, <<r, c, Stale>>}}

InitialSheets ==
    {[exists |-> FALSE, rows |-> 0, cols |-> 0, cells |-> {}]}
    \cup UNION {{[exists |-> TRUE, rows |-> r, cols |-> c, cells |-> old] :
                    old \in OldContents(r, c)} :
                r \in RowExtents, c \in ColExtents}

\* No sync call has been made.
GcsIdle(bucket, files) ==
    [bucket |-> bucket, files |-> files, pc |-> "idle", blob |-> "a.pkl",
     path |-> "x.pkl", found |-> FALSE, downloaded |-> FALSE, result |-> "none"]

Init ==
    /\ gcs = GcsIdle([b \in Blobs |-> 0], [f \in Paths |-> 0])
    /\ df \in BOOLEAN
    /\ local_path \in LocalPaths
    /\ data \in [N : 0 .. MaxRows, C : ColCounts]
    /\ batch_size \in BatchSizes
    /\ drop_unused_columns \in BOOLEAN
    /\ sheet \in InitialSheets
    /\ pc = "prepare"
    /\ i = 0
    /\ calls = <<>>
    /\ outcome = "none"
    /\ injected = FALSE
    /\ run = 1
    /\ first = [outcome |-> "none", sheet |-> sheet, injected |-> FALSE]

Next ==
    \/ PrepareDf
    \/ Connect
    \/ GetWorksheet
    \/ EnsureCapacity
    \/ ClearSheet
    \/ SingleShot
    \/ ChunkedHeader
    \/ ChunkWrite
    \/ LoopExit
    \/ TrimColumns
    \/ Reinvoke

Spec == Init /\ [][Next]_vars

\* A step of a running invocation.  upload_to_gsheet is straight-line,
\* single-threaded code over blocking calls: a statement that can run does
\* run.  Whether the caller invokes it again is left open.
Step ==
    \/ PrepareDf
    \/ Connect
    \/ GetWorksheet
    \/ EnsureCapacity
    \/ ClearSheet
    \/ SingleShot
    \/ ChunkedHeader
    \/ ChunkWrite
    \/ LoopExit
    \/ TrimColumns

FairSpec == Spec /\ WF_vars(Step)

\* ------------------------------------------------- sync_gcs_file_to_local
\* gcs.bucket[b] is the content of blob b, gcs.files[f] that of local file f
\* (0: absent).  gcs.found: blob.exists() returned True; gcs.downloaded:
\* blob.download_to_filename returned; gcs.result: what the call returned.
uploadVars == <<df, local_path, data, batch_size, drop_unused_columns, sheet,
                pc, i, calls, outcome, injected, run, first>>

\* gcs_utils.py lines 92-107: a call sync_gcs_file_to_local(bucket_name,
\* gcs_blob_name, local_file_path); bucket() and blob() build local handles.
SyncCall ==
    /\ gcs.pc \in {"idle", "done"}
    /\ \E b \in Blobs, f \in Paths :
          gcs' = [gcs EXCEPT !.pc = "exists", !.blob = b, !.path = f,
                             !.found = FALSE, !.downloaded = FALSE,
                             !.result = "none"]
    /\ UNCHANGED uploadVars

\* Lines 109-118: blob.exists().  When it raises, the except branch returns
\* False; when the blob is absent, the else branch returns False.
SyncExists ==
    /\ gcs.pc = "exists"
    /\ \E ok \in BOOLEAN :
          gcs' = IF ~ ok THEN [gcs EXCEPT !.pc = "done", !.result = "False"]
                 ELSE IF gcs.bucket[gcs.blob] # 0
                      THEN [gcs EXCEPT !.pc = "download", !.found = TRUE]
                      ELSE [gcs EXCEPT !.pc = "done", !.result = "False"]
    /\ UNCHANGED uploadVars

\* Lines 81-89, called from line 111: download_from_gcs.  Its try block
\* downloads the blob to the file; its except branch logs and returns, so
\* the caller sees None either way.  A failed download leaves the local
\* file as it was or removes it.
DownloadFromGcs ==
    /\ gcs.pc = "download"
    /\ \E ok \in BOOLEAN, left \in {0, gcs.files[gcs.path]} :
          gcs' = IF ok
                 THEN [gcs EXCEPT !.pc = "downloaded", !.downloaded = TRUE,
                                  !.files[gcs.path] = gcs.bucket[gcs.blob]]
                 ELSE [gcs EXCEPT !.pc = "downloaded", !.files[gcs.path] = left]
    /\ UNCHANGED uploadVars

\* Line 112: return True.
SyncReturn ==
    /\ gcs.pc = "downloaded"
    /\ gcs' = [gcs EXCEPT !.pc = "done", !.result = "True"]
    /\ UNCHANGED uploadVars

InitGcs ==
    /\ gcs \in {GcsIdle(bucket, files) :
                  bucket \in [Blobs -> 0 .. MaxVersion],
                  files \in [Paths -> 0 .. MaxVersion]}
    /\ df = FALSE
    /\ local_path = ""
    /\ data = [N |-> 0, C |-> 1]
    /\ batch_size = 1
    /\ drop_unused_columns = FALSE
    /\ sheet = [exists |-> FALSE, rows |-> 0, cols |-> 0, cells |-> {}]
    /\ pc = "prepare"
    /\ i = 0
    /\ calls = <<>>
    /\ outcome = "none"
    /\ injected = FALSE
    /\ run = 1
    /\ first = [outcome |-> "none", sheet |-> sheet, injected |-> FALSE]

NextGcs ==
    \/ SyncCall
    \/ SyncExists
    \/ DownloadFromGcs
    \/ SyncReturn

SpecGcs == InitGcs /\ [][NextGcs]_vars

\* ================================================================ claims
Max(a, b) == IF a > b THEN a ELSE b
CeilDiv(a, b) == (a + b - 1) \div b

\* The calls of the current invocation with operation op, in order.
CallsOf(op) == SelectSeq(calls, LAMBDA c : c.op = op)

\* Header in row 1, dataset row r in sheet row r + 2, nothing else.
ExactlyTheDataset ==
    {<<1, c, <<"h", 0, c>>>> : c \in 1 .. data_cols}
    \cup {<<r + 2, c, <<"d", r, c>>>> : r \in 0 .. total_rows - 1, c \in 1 .. data_cols}

\* The invocation got past input validation and no remote call failed on
\* its own.
RanUndisturbed == pc = "done" /\ ~ injected /\ outcome # "False"

\* C1: with a positive batch_size, a call that returns True leaves the
\* worksheet holding exactly the header in row 1 and dataset row r in sheet
\* row r + 2, and no cell from before the call.
C1_TrueMeansExactlyTheDataset ==
    (outcome = "True" /\ batch_size > 0) => sheet.cells = ExactlyTheDataset

\* C1 witness: a chunked upload onto a worksheet that held old content
\* returned True.
C1_Witness ==
    /\ run = 1
    /\ outcome = "True"
    /\ batch_size > 0
    /\ total_rows > batch_size
    /\ first.sheet.cells # {}

\* The chunk writes are as many as ceil(row_count / batch_size) and their
\* row ranges, in order, tile sheet rows 2 .. row_count + 1.
ChunksTileTheRows ==
    LET ch == CallsOf("update_values")
    IN  /\ Len(ch) = CeilDiv(total_rows, batch_size)
        /\ ch[1].top = 2
        /\ \A k \in 1 .. Len(ch) : ch[k].top <= ch[k].bottom
        /\ \A k \in 1 .. Len(ch) - 1 : ch[k + 1].top = ch[k].bottom + 1
        /\ ch[Len(ch)].bottom = total_rows + 1

\* C2: for every dataset with row_count > batch_size > 0, an upload that no
\* remote failure disturbs issues exactly ceil(row_count / batch_size) chunk
\* writes whose row ranges tile sheet rows 2 .. row_count + 1.
C2_ChunkWritesTileTheRows ==
    (RanUndisturbed /\ batch_size > 0 /\ total_rows > batch_size)
        => ChunksTileTheRows

\* C2, for datasets of at most 26 columns only: the same statement.
C2_ChunkWritesTileTheRows_UpToZ ==
    (RanUndisturbed /\ batch_size > 0 /\ total_rows > batch_size /\ data_cols <= 26)
        => ChunksTileTheRows

\* C3: when row_count <= batch_size (the boundary row_count = batch_size and
\* the empty dataset included) no chunk write is ever issued, the only write
\* is one set_dataframe of header plus all data rows from A1, and an
\* undisturbed upload issues it exactly once; a chunk write, a header-only
\* write or the chunk loop occurs only when row_count > batch_size.
C3_SingleShotIffFits ==
    /\ total_rows <= batch_size =>
        /\ Len(CallsOf("update_values")) = 0
        /\ Len(CallsOf("set_dataframe")) <= 1
        /\ \A k \in DOMAIN calls :
              calls[k].op = "set_dataframe" =>
                  calls[k].head /\ calls[k].top = 1 /\ calls[k].n = total_rows
        /\ RanUndisturbed => Len(CallsOf("set_dataframe")) = 1
    /\ ( \/ pc = "loop"
         \/ \E k \in DOMAIN calls :
               \/ calls[k].op = "update_values"
               \/ calls[k].op = "set_dataframe" /\ ~ calls[k].head )
       => total_rows > batch_size

\* C3 witness: a dataset of exactly batch_size rows (not empty) was uploaded
\* by one set_dataframe.
C3_Witness ==
    /\ outcome = "True"
    /\ total_rows = batch_size
    /\ total_rows > 0
    /\ Len(CallsOf("set_dataframe")) = 1

\* C4: the ensure-capacity step resizes only when a dimension is too small,
\* and then to the maximum of current and required in each dimension; it
\* never lowers an extent, leaves sufficient extents (and the worksheet)
\* alone, and leaves rows >= row_count + 1 and cols >= col_count.  An extent
\* is lowered only by the trim, only when drop_unused_columns is true and
\* the column capacity exceeds col_count, and then only the column extent.
C4_EnsureCapacityOnlyGrows ==
    [][ /\ pc = "capacity" =>
            /\ sheet'.rows >= sheet.rows
            /\ sheet'.cols >= sheet.cols
            /\ (sheet.rows >= total_rows + 1 /\ sheet.cols >= data_cols)
                  => (sheet' = sheet /\ calls' = calls)
            /\ (sheet.rows < total_rows + 1 \/ sheet.cols < data_cols)
                  => /\ Len(calls') = Len(calls) + 1
                     /\ calls'[Len(calls')].op = "resize"
                     /\ calls'[Len(calls')].rows = Max(sheet.rows, total_rows + 1)
                     /\ calls'[Len(calls')].cols = Max(sheet.cols, data_cols)
            /\ pc' = "clear" =>
                  /\ sheet'.rows = Max(sheet.rows, total_rows + 1)
                  /\ sheet'.cols = Max(sheet.cols, data_cols)
                  /\ sheet'.rows >= total_rows + 1
                  /\ sheet'.cols >= data_cols
        /\ (sheet'.rows < sheet.rows \/ sheet'.cols < sheet.cols) =>
            /\ pc = "trim"
            /\ drop_unused_columns
            /\ sheet.cols > data_cols
            /\ sheet'.rows = sheet.rows
            /\ sheet'.cols = data_cols
      ]_vars

\* C4 witness: the ensure-capacity resize grew the columns of a worksheet
\* whose rows were more than required, and kept the rows.
C4_Witness ==
    /\ run = 1
    /\ first.sheet.exists
    /\ first.sheet.rows > total_rows + 1
    /\ \E k \in DOMAIN calls :
          /\ calls[k].op = "resize"
          /\ calls[k].at = "capacity"
          /\ calls[k].ok
          /\ calls[k].rows = first.sheet.rows
          /\ calls[k].cols > first.sheet.cols
    /\ sheet.rows = first.sheet.rows

\* C5: without df, and with local_path not given or naming a file that does
\* not exist, the call returns False and makes no remote call: the call
\* history stays empty and the worksheet is as the call found it.
C5_InvalidInputNoRemoteCall ==
    (~ df /\ local_path \in {"", "missing.csv"}) =>
        /\ calls = <<>>
        /\ sheet = first.sheet
        /\ pc \in {"prepare", "done"}
        /\ pc = "done" => outcome = "False"

\* C5 witness: a call with a missing file has returned False.
C5_Witness ==
    /\ ~ df
    /\ local_path = "missing.csv"
    /\ pc = "done"
    /\ outcome = "False"

\* The last remote call of the invocation raised.
LastCallFailed == pc = "done" /\ calls # <<>> /\ ~ calls[Len(calls)].ok

FailedInWriteSequence ==
    /\ LastCallFailed
    /\ calls[Len(calls)].op \in {"resize", "clear", "set_dataframe", "update_values"}

\* C6 as stated: a failure of resize, clear or a write reaches the caller
\* of upload_to_gsheet as a raised error.
C6_RemoteFailureIsRaised ==
    FailedInWriteSequence => outcome = "raised"

\* C6 amended: a failure of resize, clear or a write is caught by the
\* safe_execution wrapper: the call returns None and raises nothing; the
\* failed call is the last one the invocation makes.
C6_RemoteFailureReturnsNone ==
    /\ outcome # "raised"
    /\ FailedInWriteSequence => outcome = "None"
    /\ \A k \in 1 .. Len(calls) - 1 : calls[k].ok

\* C6 witness: wk.clear() raised and the call has ended.
C6_Witness ==
    /\ LastCallFailed
    /\ calls[Len(calls)].op = "clear"
    /\ injected

\* C7: when the write of chunk k raises, the call ends with the worksheet
\* holding the header and exactly the rows of chunks 0 .. k-1 (dataset rows
\* 0 .. k*batch_size - 1); every earlier chunk write succeeded, the failed
\* write is the last call (no later chunk, no trim, nothing undone) and the
\* result is not True.
C7_FailedChunkLeavesPrefix ==
    (LastCallFailed /\ calls[Len(calls)].op = "update_values") =>
        LET ch == CallsOf("update_values")
            k == Len(ch) - 1
        IN  /\ \A j \in 1 .. k : ch[j].ok
            /\ \A j \in 1 .. Len(calls) - 1 : calls[j].ok
            /\ \A j \in DOMAIN calls : calls[j].at # "trim"
            /\ outcome # "True"
            /\ k * batch_size < total_rows
            /\ sheet.cells =
                  {<<1, c, <<"h", 0, c>>>> : c \in 1 .. data_cols}
                  \cup {<<r + 2, c, <<"d", r, c>>>> :
                          r \in 0 .. k * batch_size - 1, c \in 1 .. data_cols}

\* C7 witness: the write of a chunk after the first failed on its own.
C7_Witness ==
    /\ LastCallFailed
    /\ injected
    /\ calls[Len(calls)].op = "update_values"
    /\ Len(CallsOf("update_values")) >= 2

\* C8: when neither invocation is disturbed by a remote failure, the second
\* invocation with the same arguments leaves the worksheet (content and
\* extents) as the first one left it, and gives the same result.
C8_SecondUploadChangesNothing ==
    (run = 2 /\ pc = "done" /\ ~ injected /\ ~ first.injected) =>
        /\ sheet = first.sheet
        /\ outcome = first.outcome

\* C8 witness: two chunked uploads with the column trim, both returned True.
C8_Witness ==
    /\ run = 2
    /\ outcome = "True"
    /\ first.outcome = "True"
    /\ total_rows > batch_size
    /\ drop_unused_columns
    /\ \E k \in DOMAIN calls : calls[k].op = "update_values"

\* What a call that returns True writes: the header and, through the single
\* write or the chunk loop over range(0, row_count, batch_size), the rows.
SuccessfulUploadContent ==
    IF batch_size > 0 THEN ExactlyTheDataset
    ELSE {<<1, c, <<"h", 0, c>>>> : c \in 1 .. data_cols}

\* C9: an upload that returns True after a first attempt that a remote
\* failure ended leaves the same content as an upload that returns True on
\* a worksheet that never saw a failed attempt (the first invocation):
\* nothing of the failed attempt remains.
C9_RetryAfterFailureLeavesNoResidue ==
    (outcome = "True" /\ (run = 1 \/ first.injected))
        => sheet.cells = SuccessfulUploadContent

\* C9 witness: the first attempt failed in its chunk loop after writing a
\* chunk, and the second attempt returned True.
C9_Witness ==
    /\ run = 2
    /\ first.injected
    /\ first.outcome = "None"
    /\ \E t \in first.sheet.cells : t[3][1] = "d"
    /\ first.sheet.cells # ExactlyTheDataset
    /\ outcome = "True"
    /\ batch_size > 0

\* The spreadsheet label of the column with 0-based index idx:
\* A, ..., Z, AA, AB, ...
RECURSIVE ColumnLabel(_)
ColumnLabel(idx) ==
    IF idx < 26 THEN <<OrdA + idx>>
    ELSE ColumnLabel((idx \div 26) - 1) \o <<OrdA + (idx % 26)>>

\* C10: every chunk write is addressed A{start_row}:{col_letter}{end_row}
\* with col_letter the base-26 label of the dataset's last column, for
\* every column count.
C10_ChunkRangeEndsAtLastColumn ==
    \A k \in DOMAIN calls :
        calls[k].op = "update_values" =>
            /\ calls[k].label = ColumnLabel(data_cols - 1)
            /\ ColumnIndex(calls[k].label) = data_cols

\* C10, for datasets of at most 26 columns only: the same statement.
C10_ChunkRangeEndsAtLastColumn_UpToZ ==
    data_cols <= 26 => C10_ChunkRangeEndsAtLastColumn

\* C11: at the trim step, when drop_unused_columns is true and the column
\* capacity exceeds col_count, one resize to (current rows, col_count) is
\* issued, and when it returns the worksheet has exactly col_count columns,
\* its rows and cells unchanged, and the call returns True; otherwise (the
\* capacity equals col_count, or drop_unused_columns is false) no call is
\* issued, the worksheet is unchanged and the call returns True.
C11_TrimToColumnCount ==
    [][ pc = "trim" =>
          IF drop_unused_columns /\ sheet.cols > data_cols
          THEN /\ Len(calls') = Len(calls) + 1
               /\ calls'[Len(calls')].op = "resize"
               /\ calls'[Len(calls')].rows = sheet.rows
               /\ calls'[Len(calls')].cols = data_cols
               /\ IF calls'[Len(calls')].ok
                  THEN /\ sheet'.cols = data_cols
                       /\ sheet'.rows = sheet.rows
                       /\ sheet'.cells = sheet.cells
                       /\ outcome' = "True"
                  ELSE sheet' = sheet /\ outcome' # "True"
          ELSE /\ calls' = calls
               /\ sheet' = sheet
               /\ sheet.cols = data_cols \/ ~ drop_unused_columns
               /\ outcome' = "True"
      ]_vars

\* C11 witness: a worksheet wider than the dataset was trimmed to col_count
\* columns by a call that returned True.
C11_Witness ==
    /\ run = 1
    /\ outcome = "True"
    /\ first.sheet.exists
    /\ first.sheet.cols > data_cols
    /\ sheet.cols = data_cols
    /\ sheet.rows = first.sheet.rows
    /\ calls[Len(calls)].op = "resize"
    /\ calls[Len(calls)].at = "trim"

\* C12: a call that returns True wrote the header exactly once: it made
\* exactly one set_dataframe call, at A1; in the single-shot branch that call
\* carries header and data (copy_head), in the chunked branch it is the
\* header row alone and comes before every chunk write; no chunk range
\* starts above sheet row 2, and row 1 of the worksheet holds the header.
C12_HeaderWrittenOnce ==
    /\ \A k \in DOMAIN calls : calls[k].op = "update_values" => calls[k].top >= 2
    /\ \A k \in DOMAIN calls : calls[k].op = "set_dataframe" => calls[k].top = 1
    /\ outcome = "True" =>
        /\ Len(CallsOf("set_dataframe")) = 1
        /\ \A k \in DOMAIN calls :
              calls[k].op = "set_dataframe" =>
                  /\ calls[k].ok
                  /\ IF total_rows <= batch_size
                     THEN calls[k].head /\ calls[k].bottom = total_rows + 1
                     ELSE ~ calls[k].head /\ calls[k].bottom = 1
                  /\ \A j \in DOMAIN calls : calls[j].op = "update_values" => k < j
        /\ {t \in sheet.cells : t[1] = 1}
              = {<<1, c, <<"h", 0, c>>>> : c \in 1 .. data_cols}

\* C12 witness: a chunked upload of several chunks returned True.
C12_Witness ==
    /\ outcome = "True"
    /\ total_rows > batch_size
    /\ Len(CallsOf("update_values")) >= 2
    /\ Len(CallsOf("set_dataframe")) = 1

\* The place of a remote call in the pipeline connect, list tabs, get or add
\* the tab, ensure capacity, clear, write, chunk writes, trim.
Stage(c) ==
    CASE c.op = "open" -> 0
      [] c.op = "worksheets" -> 1
      [] c.op \in {"worksheet_by_title", "add_worksheet"} -> 2
      [] c.op = "resize" /\ c.at = "capacity" -> 3
      [] c.op = "clear" -> 4
      [] c.op = "set_dataframe" -> 5
      [] c.op = "update_values" -> 6
      [] c.op = "resize" /\ c.at = "trim" -> 7
      [] OTHER -> 8

\* C14: the remote calls of an invocation come in the order ensure-capacity
\* resize (at most one), clear (exactly one once the write stage is reached,
\* with or without a resize before it), writes (one set_dataframe, then the
\* chunks one at a time in increasing row order), trim resize (at most one):
\* a call of an earlier stage never follows a call of a later one, so no clear
\* or ensure-capacity resize follows a write and no write follows the trim.
C14_LinearPipeline ==
    /\ \A k \in DOMAIN calls : Stage(calls[k]) <= 7
    /\ \A j, k \in DOMAIN calls : j < k =>
          /\ Stage(calls[j]) <= Stage(calls[k])
          /\ Stage(calls[j]) = Stage(calls[k]) =>
                /\ calls[k].op = "update_values"
                /\ calls[j].bottom < calls[k].top
    /\ (pc \in {"write", "loop", "trim"} \/ outcome = "True") =>
          /\ Len(CallsOf("clear")) = 1
          /\ \A k \in DOMAIN calls : calls[k].op = "clear" => calls[k].ok
    /\ \A k \in DOMAIN calls :
          calls[k].op \in {"set_dataframe", "update_values"} =>
              \E j \in 1 .. k - 1 : calls[j].op = "clear" /\ calls[j].ok

\* C14 witness: an upload made every kind of call (ensure-capacity resize,
\* clear, header write, several chunk writes, trim resize) and returned True.
C14_Witness ==
    /\ outcome = "True"
    /\ \E k \in DOMAIN calls : Stage(calls[k]) = 3
    /\ \E k \in DOMAIN calls : Stage(calls[k]) = 7
    /\ Len(CallsOf("update_values")) >= 2

\* C15: first.sheet is the tab as the current invocation found it.  A tab is
\* added only when none of that name existed, and before any resize, clear
\* or write; an existing tab is looked up and none is added; once the tab
\* step has returned, the tab exists and exactly one tab of that name does
\* (the one found, or the one added), and a new tab starts empty.
TabsNamed ==
    (IF first.sheet.exists THEN 1 ELSE 0)
    + Len(SelectSeq(calls, LAMBDA c : c.op = "add_worksheet" /\ c.ok))

C17_TrueMeansEveryRowWritten ==
    outcome = "True" =>
        \A r \in 0 .. total_rows - 1, c \in 1 .. data_cols :
            <<r + 2, c, <<"d", r, c>>>> \in sheet.cells

\* C17, for positive batch_size only: the same statement.
C17_TrueMeansEveryRowWritten_Positive ==
    batch_size > 0 => C17_TrueMeansEveryRowWritten

\* C18: at the moment a chunk write is issued, 2 <= start_row <= end_row <=
\* row_count + 1, the range has as many rows as the payload, that number is
\* between 1 and batch_size, and end_row is within the worksheet's row
\* capacity at that moment.
C18_ChunkRangeWithinBounds ==
    [][ (Len(calls') = Len(calls) + 1 /\ calls'[Len(calls')].op = "update_values") =>
          LET w == calls'[Len(calls')]
          IN  /\ 2 <= w.top
              /\ w.top <= w.bottom
              /\ w.bottom <= total_rows + 1
              /\ w.bottom - w.top + 1 = w.n
              /\ 1 <= w.n
              /\ w.n <= batch_size
              /\ w.bottom <= sheet.rows
      ]_vars

\* C18 witness: a last chunk shorter than batch_size was written up to the
\* last row of a worksheet that had to be grown for it.
C18_Witness ==
    /\ run = 1
    /\ first.sheet.exists
    /\ first.sheet.rows < total_rows + 1
    /\ \E k \in DOMAIN calls :
          /\ calls[k].op = "update_values"
          /\ calls[k].ok
          /\ calls[k].n < batch_size
          /\ calls[k].bottom = sheet.rows

\* C16: with a positive batch_size a chunked upload that has started its
\* loop ends (pc = "done"); it issues each chunk at most once, in increasing
\* row order, at most ceil(row_count / batch_size) chunks in all, a failed
\* call is the last call of the invocation, and at the end either every
\* chunk was written and the call returned True (or its trim failed), or the
\* chunk loop stopped at the chunk write that failed.
C16_ChunkedUploadTerminates ==
    /\ [](batch_size > 0 =>
            LET ch == CallsOf("update_values")
            IN  /\ Len(ch) <= CeilDiv(total_rows, batch_size)
                /\ \A k \in 1 .. Len(ch) : ch[k].top = (k - 1) * batch_size + 2
                /\ \A k \in 1 .. Len(calls) - 1 : calls[k].ok
                /\ pc = "loop" => i = Len(ch) * batch_size
                /\ (pc = "done" /\ Len(ch) > 0) =>
                      \/ /\ Len(ch) = CeilDiv(total_rows, batch_size)
                         /\ \A k \in 1 .. Len(ch) : ch[k].ok
                         /\ outcome = "True" \/ calls[Len(calls)].at = "trim"
                      \/ /\ ~ ch[Len(ch)].ok
                         /\ calls[Len(calls)].op = "update_values"
                         /\ outcome # "True")
    /\ (pc = "loop" /\ batch_size > 0) ~> (pc = "done")

\* C16 witness: a chunked upload of several chunks has ended with True.
C16_Witness ==
    /\ pc = "done"
    /\ outcome = "True"
    /\ batch_size > 0
    /\ Len(CallsOf("update_values")) >= 2
    /\ Len(CallsOf("update_values")) = CeilDiv(total_rows, batch_size)

\* C13: sync_gcs_file_to_local returns True only if the blob exists and its
\* download to the local path succeeded (the file then holds the blob's
\* content); in every other case it returns False.
C13_TrueOnlyIfDownloaded ==
    /\ gcs.result = "True" =>
          /\ gcs.bucket[gcs.blob] # 0
          /\ gcs.downloaded
          /\ gcs.files[gcs.path] = gcs.bucket[gcs.blob]
    /\ (gcs.pc = "done" /\ ~ (gcs.found /\ gcs.downloaded)) => gcs.result = "False"

\* C13, as far as the code goes: the call returns True exactly when
\* blob.exists() returned True, whether or not the download succeeded.
C13_TrueIffBlobFound ==
    /\ gcs.result = "True" => (gcs.found /\ gcs.bucket[gcs.blob] # 0)
    /\ gcs.pc = "done" => (gcs.result = "True" <=> gcs.found)
    /\ gcs.pc = "done" => gcs.result \in {"True", "False"}

====
